---- MODULE Spec2Model ----
(***************************************************************************)
(* Model of taskr.py: the TaskManager class (config.json and tasks.json    *)
(* handling, add/remove/update/status/list) and the two command routers.  *)
(*                                                                         *)
(* A JSON document on disk is a record [kind, ...]; kind tells what the    *)
(* file holds: "missing" (no file), "empty" (zero bytes), "garbage" (text  *)
(* json.load rejects with JSONDecodeError), or the type of the JSON value  *)
(* it parses to: "null", "number" (a non-zero one), "list", "object", and  *)
(* for tasks.json "empty object" for {}, "object" being {"a": 1}.  A       *)
(* Python value in memory is a record of the same shape, its kind naming   *)
(* its type.  A list holds task records only.                              *)
(* Scalar JSON values inside the config mapping are kept as their JSON     *)
(* text ("true", "false", "\"false\"").                                    *)
(***************************************************************************)
EXTENDS Integers, Sequences, FiniteSets, TLC

VARIABLES
    cfgDisk,    \* config.json
    tasksDisk,  \* tasks.json
    config,     \* self.config of the running TaskManager
    pc,         \* "new" (constructed), "ready" (config_setup done), "crashed"
    outcome,    \* the notice the last call printed last, or the exception it raised
    mem,        \* the value of its local variable `tasks` when it ended
    clock,      \* the last value datetime.now() returned
    saves       \* how many times save_tasks has run

vars == <<cfgDisk, tasksDisk, config, pc, outcome, mem, clock, saves>>

\* ----------------------------------------------------------------- bounds
MaxSaves == 1       \* save_tasks runs at most MaxSaves times
MaxTime  == 1       \* datetime.now() stays within 0..MaxTime

\* ------------------------------------------------------------- vocabulary
Keys == {"autosave", "theme"}
Absent == "<absent>"
\* a status list that lets one more word through
AnyStatus == {"not started", "in progress", "review", "done", "bogus"}

\* the list change_task_status checks the status against
ValidStatuses == {"not started", "in progress", "review", "done"}
StatusArgs == ValidStatuses \cup {"bogus"}
Descriptions == {"a", "b"}
TaskIds == 1..3
None == "<none>"
Exceptions == {"TypeError", "AttributeError"}

\* ------------------------------------------------------ the config values
CfgMap(a, t) == [k \in Keys |-> IF k = "autosave" THEN a ELSE t]
NoKeys == CfgMap(Absent, Absent)
CfgValue(kind, map) == [kind |-> kind, map |-> map]
EmptyDict == CfgValue("object", NoKeys)
DEFAULT_CONFIG == CfgValue("object", CfgMap("true", Absent))

\* dict.get(key, fallback) on a dict
Get(d, key, fallback) == IF d.map[key] = Absent THEN fallback ELSE d.map[key]

\* bool(v) of a parsed JSON scalar
Truthy(v) == v \notin {"false", "null", "0", "\"\""}

\* json.load(config_file): raises JSONDecodeError on an empty file and on
\* text that is not JSON; returns any JSON value otherwise, mapping or not.
JsonDecodeError(doc) == doc.kind \in {"empty", "garbage"}

\* ------------------------------------------------------- the tasks values
Task(id, d, s, c, u) ==
    [id |-> id, description |-> d, status |-> s,
     created_time |-> c, updated_time |-> u]
TasksValue(kind, tasks) == [kind |-> kind, tasks |-> tasks]
EmptyList == TasksValue("list", <<>>)

\* load_tasks: [] when the file is missing or json.load raises
\* JSONDecodeError; whatever json.load returns otherwise.
load_tasks(doc) ==
    IF doc.kind = "missing" THEN EmptyList
    ELSE IF JsonDecodeError(doc) THEN EmptyList
    ELSE doc

\* save_tasks: json.dump(tasks) replaces the file
save_tasks(tasks) == tasks

\* len(tasks): TypeError on None and on an int; 0 for {}, 1 for {"a": 1}
LenRaises(v) == v.kind \in {"null", "number"}
PyLen(v) ==
    IF v.kind = "list" THEN Len(v.tasks)
    ELSE IF v.kind = "object" THEN 1 ELSE 0

\* `not tasks`: None, [] and {} are false; the number stands for a non-zero int
PyFalsy(v) == v.kind = "null" \/ (v.kind # "number" /\ PyLen(v) = 0)

\* `for task in tasks`: TypeError on None and on an int.  Iterating a dict
\* yields its keys, and task['id'] on a str key raises TypeError.
IterRaises(v) == v.kind \in {"null", "number"}
ItemRaises(v) == v.kind = "object"

\* self.config.get(...): AttributeError unless self.config is a dict
GetRaises(c) == c.kind # "object"

\* a save that does not look at the flag
AutosaveAlways(c) == TRUE

\* self.config.get("autosave", True), as the `if` sees it
Autosave(c) == Truthy(Get(c, "autosave", "true"))

\* a filter that takes the argument for a position in the list
RECURSIVE FilterByPosition(_, _)
FilterByPosition(s, pos) ==
    IF s = <<>> THEN <<>>
    ELSE IF pos # 1
         THEN <<Head(s)>> \o FilterByPosition(Tail(s), pos - 1)
         ELSE Tail(s)

\* [task for task in tasks if task['id'] != task_id]
RECURSIVE Filter(_, _)
Filter(s, task_id) ==
    IF s = <<>> THEN <<>>
    ELSE IF Head(s).id # task_id
         THEN <<Head(s)>> \o Filter(Tail(s), task_id)
         ELSE Filter(Tail(s), task_id)

\* a renumbering that writes the index itself
ReassignFromZero(s) == [i \in 1..Len(s) |-> [s[i] EXCEPT !.id = i - 1]]

\* for index, task in enumerate(tasks): task['id'] = index + 1
Reassign(s) == [i \in 1..Len(s) |-> [s[i] EXCEPT !.id = i]]

\* an id taken from the length as it is
NextIdFromLen(tasks) == PyLen(tasks)

\* 'id': len(tasks) + 1
NextId(tasks) == PyLen(tasks) + 1

\* an update that stamps both timestamps
TouchBothTimes(task, field, value, u) ==
    [[[task EXCEPT ![field] = value]
         EXCEPT !.updated_time = u] EXCEPT !.created_time = u]

\* task[field] = value; task['updated_time'] = datetime.now().isoformat()
Touch(task, field, value, u) ==
    [[task EXCEPT ![field] = value] EXCEPT !.updated_time = u]

\* the first position whose task has the id, 0 when there is none
FirstMatch(s, task_id) ==
    IF \E i \in 1..Len(s) : s[i].id = task_id
    THEN CHOOSE i \in 1..Len(s) :
            /\ s[i].id = task_id
            /\ \A j \in 1..(i - 1) : s[j].id # task_id
    ELSE 0

\* datetime.now(): not before the previous reading
Now(t) == {u \in t..(t + 1) : u <= MaxTime}

\* ------------------------------------------------------------------- Init
InitCfgDocs ==
    {CfgValue(k, NoKeys) : k \in {"missing", "empty", "garbage", "null", "list"}}
    \cup {CfgValue("object", CfgMap(a, Absent)) : a \in {Absent, "true", "false"}}
    \cup {CfgValue("object", CfgMap("\"false\"", "\"dark\""))}

\* tasks.json as found: ids in and out of sequence, repeated ids; tasks as
\* add_task leaves them, or edited since (the statuses by position)
InitIds == {<<>>, <<1>>, <<1, 2>>, <<1, 2, 3>>, <<2, 2>>, <<3, 1>>}
Fresh(id, i) == Task(id, "a", "not started", 0, 0)
Edited(id, i) == Task(id, "b", <<"done", "review", "in progress">>[i], 0, 0)
InitTasksDocs ==
    {TasksValue(k, <<>>) :
        k \in {"missing", "empty", "garbage", "null", "number",
               "empty object", "object"}}
    \cup {TasksValue("list", [i \in 1..Len(ids) |-> Fresh(ids[i], i)]) :
          ids \in InitIds}
    \cup {TasksValue("list", [i \in 1..Len(ids) |-> Edited(ids[i], i)]) :
          ids \in InitIds}

Contiguous2(d) ==
    /\ Len(d.tasks) = 2
    /\ \A i \in 1..2 : d.tasks[i].id = i /\ d.tasks[i].status = "not started"

\* __init__: self.config = {}.  Every config document meets a missing and a
\* two-task tasks.json, every tasks document meets the default config.
Init ==
    /\ \/ /\ cfgDisk \in InitCfgDocs
          /\ tasksDisk \in {d \in InitTasksDocs :
                              d.kind = "missing" \/ Contiguous2(d)}
       \/ /\ cfgDisk = DEFAULT_CONFIG
          /\ tasksDisk \in InitTasksDocs
    /\ config = EmptyDict
    /\ pc = "new"
    /\ outcome = "none"
    /\ mem = EmptyList
    /\ clock = 0
    /\ saves = 0

\* ---------------------------------------------------------------- actions
\* main(): a new process constructs a new TaskManager
NewProcess ==
    /\ pc \in {"ready", "crashed"}
    /\ config' = EmptyDict
    /\ pc' = "new"
    /\ outcome' = "none"
    /\ mem' = EmptyList
    /\ UNCHANGED <<cfgDisk, tasksDisk, clock, saves>>

config_setup ==
    /\ pc \in {"new", "ready"}
    /\ mem' = EmptyList
    /\ pc' = "ready"
    /\ LET created == cfgDisk.kind = "missing"
           doc == IF created THEN DEFAULT_CONFIG ELSE cfgDisk
       IN  IF JsonDecodeError(doc)
           THEN /\ cfgDisk' = DEFAULT_CONFIG
                /\ config' = DEFAULT_CONFIG
                /\ outcome' = "defaults written"
           ELSE /\ cfgDisk' = doc
                /\ config' = doc
                /\ outcome' = IF created THEN "config created" ELSE "config loaded"
    /\ UNCHANGED <<tasksDisk, clock, saves>>

\* the tail of every mutating operation, once `tasks` holds the result:
\* if self.config.get("autosave", True): self.save_tasks(tasks)
Persist(tasks, notice) ==
    /\ mem' = tasks
    /\ IF GetRaises(config)
       THEN /\ outcome' = "AttributeError"
            /\ pc' = "crashed"
            /\ UNCHANGED <<tasksDisk, saves>>
       ELSE /\ outcome' = notice
            /\ pc' = "ready"
            /\ IF Autosave(config)
               THEN /\ saves < MaxSaves
                    /\ tasksDisk' = save_tasks(tasks)
                    /\ saves' = saves + 1
               ELSE UNCHANGED <<tasksDisk, saves>>

Raise(exc, tasks) ==
    /\ mem' = tasks
    /\ outcome' = exc
    /\ pc' = "crashed"
    /\ UNCHANGED <<tasksDisk, saves>>

Report(notice, tasks) ==
    /\ mem' = tasks
    /\ outcome' = notice
    /\ pc' = "ready"
    /\ UNCHANGED <<tasksDisk, saves>>

add_task(description) ==
    /\ pc = "ready"
    /\ LET tasks == load_tasks(tasksDisk)
       IN  IF LenRaises(tasks)
           THEN Raise("TypeError", tasks) /\ UNCHANGED clock
           ELSE \E c \in Now(clock) : \E u \in Now(c) :
                  /\ clock' = u
                  /\ IF tasks.kind # "list"
                     THEN Raise("AttributeError", tasks)
                     ELSE Persist(
                            TasksValue("list",
                              Append(tasks.tasks,
                                Task(NextId(tasks), description,
                                   "not started", c, u))),
                          "added")
    /\ UNCHANGED <<cfgDisk, config>>

remove_task(task_id) ==
    /\ pc = "ready"
    /\ LET loaded == load_tasks(tasksDisk)
       IN  IF LenRaises(loaded) \/ ItemRaises(loaded)
           THEN Raise("TypeError", loaded)
           ELSE LET kept == Filter(loaded.tasks, task_id)
                IN  IF Len(kept) < PyLen(loaded)
                    THEN Persist(TasksValue("list", Reassign(kept)), "removed")
                    ELSE Report("not found", TasksValue("list", kept))
    /\ UNCHANGED <<cfgDisk, config, clock>>

\* the loop shared by update_task and change_task_status: the first task
\* with the id gets the field and a new updated_time, then the method returns
Modify(task_id, field, value, notice) ==
    LET tasks == load_tasks(tasksDisk)
    IN  IF IterRaises(tasks) \/ ItemRaises(tasks)
        THEN Raise("TypeError", tasks) /\ UNCHANGED clock
        ELSE LET i == FirstMatch(tasks.tasks, task_id)
             IN  IF i = 0
                 THEN Report("not found", tasks) /\ UNCHANGED clock
                 ELSE \E u \in Now(clock) :
                        /\ clock' = u
                        /\ Persist(
                             TasksValue("list",
                               [tasks.tasks EXCEPT
                                  ![i] = Touch(@, field, value, u)]),
                             notice)

update_task(task_id, description) ==
    /\ pc = "ready"
    /\ Modify(task_id, "description", description, "updated")
    /\ UNCHANGED <<cfgDisk, config>>

change_task_status(task_id, status) ==
    /\ pc = "ready"
    /\ IF status \notin ValidStatuses
       THEN Report("invalid status", load_tasks(tasksDisk)) /\ UNCHANGED clock
       ELSE Modify(task_id, "status", status, "status updated")
    /\ UNCHANGED <<cfgDisk, config>>

list_tasks(status, show_all) ==
    /\ pc = "ready"
    /\ LET tasks == load_tasks(tasksDisk)
       IN  IF status = None /\ ~show_all
           THEN Report("usage hint", tasks)
           ELSE IF show_all
           THEN IF PyFalsy(tasks)
                THEN Report("no tasks", tasks)
                ELSE IF tasks.kind # "list"
                     THEN Raise("TypeError", tasks)
                     ELSE Report("listed", tasks)
           ELSE IF IterRaises(tasks) \/ ItemRaises(tasks)
                THEN Raise("TypeError", tasks)
                ELSE IF \E i \in 1..Len(tasks.tasks) : tasks.tasks[i].status = status
                     THEN Report("listed", tasks)
                     ELSE Report("no tasks", tasks)
    /\ UNCHANGED <<cfgDisk, config, clock>>

\* the methods class TaskManager defines
TaskManagerMethods ==
    {"__init__", "config_setup", "load_tasks", "save_tasks", "add_task",
     "remove_task", "update_task", "change_task_status", "list_tasks"}

\* manager.<method>(...) on a name the class does not define
NoAttribute(method) ==
    /\ method \notin TaskManagerMethods
    /\ outcome' = "AttributeError"
    /\ pc' = "crashed"
    /\ UNCHANGED <<cfgDisk, config>>

\* handle_config_commands, `config update <key> <value>`
config_update(key, value) ==
    /\ pc = "ready"
    /\ mem' = EmptyList
    /\ NoAttribute("update_config")
    /\ UNCHANGED <<tasksDisk, clock, saves>>

\* handle_config_commands, `config view`
config_view ==
    /\ pc = "ready"
    /\ mem' = EmptyList
    /\ NoAttribute("view_config")
    /\ UNCHANGED <<tasksDisk, clock, saves>>

\* handle_config_commands, `config` with no subcommand
config_invalid ==
    /\ pc = "ready"
    /\ mem' = EmptyList
    /\ outcome' = "invalid config command"
    /\ pc' = "ready"
    /\ UNCHANGED <<cfgDisk, tasksDisk, config, clock, saves>>

Next ==
    \/ NewProcess
    \/ config_setup
    \/ \E d \in Descriptions : add_task(d)
    \/ \E id \in TaskIds : remove_task(id)
    \/ \E id \in TaskIds : \E d \in Descriptions : update_task(id, d)
    \/ \E id \in TaskIds : \E s \in StatusArgs : change_task_status(id, s)
    \/ \E s \in {None, "not started", "done"} : \E a \in BOOLEAN : list_tasks(s, a)
    \/ \E k \in Keys : config_update(k, "\"false\"")
    \/ config_view
    \/ config_invalid

Spec == Init /\ [][Next]_vars

TypeOK ==
    /\ pc \in {"new", "ready", "crashed"}
    /\ clock \in 0..MaxTime
    /\ saves \in 0..MaxSaves
    /\ config.kind \in {"object", "null", "list"}

\* ------------------------------------------------------------- properties
\* what the running operation loaded, and the steps of the four mutators
Loaded == load_tasks(tasksDisk)
IsList(doc) == load_tasks(doc).kind = "list"
Ids(doc) == [i \in 1..Len(load_tasks(doc).tasks) |-> load_tasks(doc).tasks[i].id]
Contiguous(doc) ==
    IsList(doc) /\ \A i \in 1..Len(load_tasks(doc).tasks) : Ids(doc)[i] = i
HasId(doc, id) == \E i \in 1..Len(load_tasks(doc).tasks) : Ids(doc)[i] = id
Done == {"added", "removed", "updated", "status updated"}
TaskStep ==
    \/ \E d \in Descriptions : add_task(d)
    \/ \E id \in TaskIds : remove_task(id)
    \/ \E id \in TaskIds : \E d \in Descriptions : update_task(id, d)
    \/ \E id \in TaskIds : \E s \in StatusArgs : change_task_status(id, s)
    \/ \E s \in {None, "not started", "done"} : \E a \in BOOLEAN : list_tasks(s, a)

\* C1: ID contiguity.  A tasks.json whose ids are 1..N in list order (a
\* missing, empty or undecodable one counts as N = 0) is left by every step
\* with ids 1..N' in list order, N' the number of tasks then in it.
C1_IdContiguity == [][Contiguous(tasksDisk) => Contiguous(tasksDisk')]_vars

C1_Witness ==
    /\ outcome = "removed"
    /\ saves >= 1
    /\ Autosave(config)
    /\ Contiguous(tasksDisk)
    /\ Len(tasksDisk.tasks) >= 2

\* C2: Autosave gating.  While self.config binds autosave to false no step
\* changes tasks.json; and whenever add, remove, update or status has just
\* completed under autosave true or absent, tasks.json holds the sequence
\* the operation produced.
C2_AutosaveGating ==
    /\ [][(~GetRaises(config) /\ config.map["autosave"] = "false")
            => tasksDisk' = tasksDisk]_vars
    /\ []((outcome \in Done /\ config.map["autosave"] \in {"true", Absent})
            => tasksDisk = mem)

C2_Witness ==
    /\ outcome = "added"
    /\ config.map["autosave"] = "false"
    /\ IsList(tasksDisk)
    /\ Len(mem.tasks) = Len(Loaded.tasks) + 1

\* C3: Status validation.  change_task_status with a status outside the four
\* valid ones, for any id, prints the validation notice and returns: the
\* tasks it loaded are untouched, tasks.json is not written, nothing raises.
C3_StatusValidation ==
    [][\A id \in TaskIds : \A s \in StatusArgs :
         (/\ s \notin {"not started", "in progress", "review", "done"}
          /\ pc = "ready"
          /\ change_task_status(id, s))
         => /\ outcome' = "invalid status"
            /\ pc' = "ready"
            /\ mem' = Loaded
            /\ tasksDisk' = tasksDisk
            /\ saves' = saves]_vars

C3_Witness ==
    /\ outcome = "invalid status"
    /\ IsList(tasksDisk)
    /\ HasId(tasksDisk, 1)
    /\ mem = tasksDisk

\* C4: Not found is a no-op.  On a tasks.json that loads as a list of tasks,
\* remove, update and status (with a valid status) called with an id no task
\* has print "not found", leave tasks.json as it was and return normally,
\* whatever the autosave flag.
C4_NotFoundNoOp ==
    [][\A id \in TaskIds :
         (/\ pc = "ready"
          /\ IsList(tasksDisk)
          /\ ~HasId(tasksDisk, id)
          /\ \/ remove_task(id)
             \/ \E d \in Descriptions : update_task(id, d)
             \/ \E s \in {"not started", "in progress", "review", "done"} :
                  change_task_status(id, s))
         => /\ outcome' = "not found"
            /\ pc' = "ready"
            /\ tasksDisk' = tasksDisk
            /\ saves' = saves]_vars

C4_Witness ==
    /\ outcome = "not found"
    /\ ~GetRaises(config)
    /\ Autosave(config)
    /\ IsList(tasksDisk)
    /\ tasksDisk.kind = "list"
    /\ Len(tasksDisk.tasks) >= 1

\* C5: Config self-healing.  config_setup on a config.json that is missing,
\* empty, not JSON, or JSON but not a mapping does not raise and leaves the
\* default mapping on disk and in self.config; a second config_setup changes
\* neither; and no later operation fails on reading the autosave flag.
C5_ConfigSelfHealing ==
    /\ [][(config_setup /\ cfgDisk.kind # "object")
            => /\ outcome' \notin Exceptions
               /\ cfgDisk' = DEFAULT_CONFIG
               /\ config' = DEFAULT_CONFIG]_vars
    /\ [][(config_setup /\ pc = "ready")
            => /\ cfgDisk' = cfgDisk
               /\ config' = config]_vars
    /\ []((pc = "ready") => ~GetRaises(config))

\* C6: Task-document recovery.  When tasks.json is absent, empty or anything
\* but a list of tasks, load_tasks gives the empty list and add, remove,
\* update, status and list do not raise (the manager holding a mapping as
\* its config).
C6_TaskDocumentRecovery ==
    [][(TaskStep /\ tasksDisk.kind # "list" /\ ~GetRaises(config))
         => /\ Loaded = EmptyList
            /\ outcome' \notin Exceptions
            /\ pc' = "ready"]_vars

\* C7: add on a list of N tasks gives N+1 tasks, the first N as they were,
\* the last with id N+1, the description, status "not started" and
\* created_time equal to updated_time.
C7_AddAppends ==
    [][\A d \in Descriptions :
         (outcome' = "added" /\ add_task(d))
         => LET old == Loaded.tasks
                new == mem'.tasks
            IN  /\ Len(new) = Len(old) + 1
                /\ SubSeq(new, 1, Len(old)) = old
                /\ new[Len(new)].id = Len(old) + 1
                /\ new[Len(new)].description = d
                /\ new[Len(new)].status = "not started"
                /\ new[Len(new)].created_time = new[Len(new)].updated_time]_vars

\* C8: Config update.  `config update <key> <value>` returns normally and
\* leaves self.config and config.json equal to the previous mapping with the
\* key bound to the value, the other keys as they were.
C8_ConfigUpdate ==
    [][\A k \in Keys :
         config_update(k, "\"false\"")
         => /\ outcome' \notin Exceptions
            /\ pc' = "ready"
            /\ config' = [config EXCEPT !.map[k] = "\"false\""]
            /\ cfgDisk' = config']_vars

\* C9: a remove that matches deletes exactly the tasks with the id; the
\* survivors keep their order, description, status, created_time and
\* updated_time, and their ids become 1..N by position.
C9_RemoveFrame ==
    [][\A id \in TaskIds :
         (outcome' = "removed" /\ remove_task(id))
         => LET old == Loaded.tasks
                kept == SelectSeq(old, LAMBDA t : t.id # id)
                new == mem'.tasks
            IN  /\ Len(kept) < Len(old)
                /\ Len(new) = Len(kept)
                /\ \A i \in 1..Len(new) :
                     /\ new[i].id = i
                     /\ [new[i] EXCEPT !.id = kept[i].id] = kept[i]
                /\ Autosave(config) => tasksDisk' = mem']_vars

C9_Witness ==
    /\ outcome = "removed"
    /\ Len(mem.tasks) >= 2
    /\ mem.tasks[1].status = "review"
    /\ mem.tasks[2].status = "in progress"
    /\ tasksDisk = mem

\* C10: a successful update changes only the description and updated_time of
\* the task with the id, a successful status change only its status and
\* updated_time, to any of the four statuses; ids, created_times, the number
\* and order of tasks and every other task stay as they were.
C10_ModifyFrame ==
    [][\A id \in TaskIds :
         /\ \A d \in Descriptions :
              (outcome' = "updated" /\ update_task(id, d))
              => \E i \in 1..Len(Loaded.tasks) : \E u \in 0..MaxTime :
                   /\ Loaded.tasks[i].id = id
                   /\ mem'.tasks = [Loaded.tasks EXCEPT
                                      ![i].description = d,
                                      ![i].updated_time = u]
         /\ \A s \in {"not started", "in progress", "review", "done"} :
              (outcome' = "status updated" /\ change_task_status(id, s))
              => \E i \in 1..Len(Loaded.tasks) : \E u \in 0..MaxTime :
                   /\ Loaded.tasks[i].id = id
                   /\ mem'.tasks = [Loaded.tasks EXCEPT
                                      ![i].status = s,
                                      ![i].updated_time = u]]_vars

C10_Witness ==
    /\ outcome = "status updated"
    /\ Len(mem.tasks) >= 2
    /\ \E i \in 1..Len(mem.tasks) :
         /\ mem.tasks[i].status = "review"
         /\ mem.tasks[i].updated_time > mem.tasks[i].created_time
    /\ \E i \in 1..Len(mem.tasks) : mem.tasks[i].description = "b"
====
